---- MODULE Spec2Model ----
(***************************************************************************)
(* A model of src/detect_markers.py: the command line entry point `main`   *)
(* and the marker scanner `detect_marker_timestamps`, which walks the      *)
(* segments returned by the transcription and collects the end time of     *)
(* the first word containing the marker text whose preceding words spell   *)
(* the slide keyword.                                                      *)
(*                                                                         *)
(* Text is a sequence of characters.  Katakana are written in upper case   *)
(* romaji, hiragana and kanji in lower case:                               *)
(*   "SU" "RA" "I" "DO"  = the four characters of the keyword (slide)      *)
(*   "ku" "da" "sa" "i"  = the four characters of the marker (please)      *)
(*   "tsugi" "no" "ni" "ne" = other characters                             *)
(* A dict is a record; a dict without a key is a record without the field. *)
(* A word's end time is a whole number of eighths of a second (a binary    *)
(* float holds these exactly); a timestamp of the transition list is a     *)
(* whole number of hundredths of a second.                                 *)
(***************************************************************************)
EXTENDS Integers, Sequences, FiniteSets

VARIABLES
    argv,         \* sys.argv
    mp3_path,     \* main's mp3_path (<<>> until assigned)
    model_name,   \* main's model_name
    transcribed,  \* whether model.transcribe has been called
    segs,         \* result['segments']
    idx,          \* position of the scanner's outer loop in segs (1-based)
    transitions,  \* the scanner's local list
    origin,       \* history: origin[p] is the segment index that appended transitions[p]
    pc,           \* "start", "scan", "returned", "raised", "exited"
    stdout,       \* values printed to standard output
    stderr,       \* what was written to standard error
    exitCode,     \* the process's exit code, -1 while it runs
    run,          \* number of the scanner invocation under way (1 or 2)
    firstResult   \* history: outcome of invocation 1 once invocation 2 has started

vars == <<argv, mp3_path, model_name, transcribed, segs, idx, transitions,
          origin, pc, stdout, stderr, exitCode, run, firstResult>>

----------------------------------------------------------------------------
(* Bounds of the enumerated inputs.                                        *)

\* most filler words between the head and the tail of a generated word list
MaxPad == 8
\* most context segments around the generated segment
MaxCtx == 1

----------------------------------------------------------------------------
(* Program constants.                                                      *)

\* 'スライド'
KEYWORD == <<"SU", "RA", "I", "DO">>
\* 'ください'
MARKER == <<"ku", "da", "sa", "i">>
\* the 8 of range(max(0, i - 8), i)
LOOKBACK == 8
\* the default of the model_name parameter
DefaultModel == "small"

----------------------------------------------------------------------------
(* Python primitives.                                                      *)

\* sub in s, for strings
Contains(sub, s) ==
    \E k \in 0..(Len(s) - Len(sub)) : SubSeq(s, k + 1, k + Len(sub)) = sub

\* key in d, for dicts
HasKey(d, key) == key \in DOMAIN d

Max(a, b) == IF a >= b THEN a ELSE b

\* round(x, 1) in place of round(x, 2): the nearest tenth, in hundredths
Round1(e) ==
    LET n == e * 5
        f == n \div 4
        r == n % 4
    IN  10 * (IF r < 2 THEN f ELSE IF r > 2 THEN f + 1
              ELSE IF f % 2 = 0 THEN f ELSE f + 1)

\* round(x, 2) for x = e/8: the hundredths nearest to e * 12.5, an exact tie
\* going to the even neighbour (0.125 -> 0.12, 0.375 -> 0.38)
Round2(e) ==
    LET n == e * 25
        f == n \div 2
    IN  IF n % 2 = 0 THEN f
        ELSE IF f % 2 = 0 THEN f ELSE f + 1

----------------------------------------------------------------------------
(* The scanner's inner loop over one segment's words (lines 46-58).        *)

\* ''.join(words[j]['word'] for j in range(max(0, i - 8), i)); the 0-based
\* range(max(0, i-8), i) is the 1-based Max(1, i - LOOKBACK)..(i - 1)
RECURSIVE JoinWords(_, _, _)
JoinWords(words, lo, hi) ==
    IF lo > hi THEN <<>>
    ELSE words[lo].word \o JoinWords(words, lo + 1, hi)

\* range(max(0, i - 8), i + 1) in place of range(max(0, i - 8), i): the
\* marker word itself is joined to its window
PrecedingWithSelf(words, i) == JoinWords(words, Max(1, i - LOOKBACK), i)

Preceding(words, i) == JoinWords(words, Max(1, i - LOOKBACK), i - 1)

\* the join raises KeyError when a word of the window has no 'word'
PrecedingRaises(words, i) ==
    \E j \in Max(1, i - LOOKBACK)..(i - 1) : ~HasKey(words[j], "word")

\* the loop without its break: the last qualifying word's end time stays
RECURSIVE ScanFromNoBreak(_, _)
ScanFromNoBreak(words, i) ==
    IF i > Len(words) THEN [kind |-> "none", at |-> 0, ts |-> 0]
    ELSE IF ~HasKey(words[i], "word") THEN [kind |-> "raise", at |-> i, ts |-> 0]
    ELSE LET rest == ScanFromNoBreak(words, i + 1)
         IN  IF ~Contains(MARKER, words[i].word) THEN rest
             ELSE IF ~Contains(KEYWORD, JoinWords(words, Max(1, i - LOOKBACK), i - 1))
                  THEN rest
             ELSE IF ~HasKey(words[i], "end") THEN [kind |-> "raise", at |-> i, ts |-> 0]
             ELSE IF rest.kind = "none"
                  THEN [kind |-> "found", at |-> i, ts |-> Round2(words[i].end)]
             ELSE rest

\* for i, w in enumerate(words), from word i on: the first word that holds
\* the marker and whose preceding words hold the keyword ends the loop.
\* kind is "found" (ts is the rounded end time of word `at`), "none" (the
\* loop ran out) or "raise" (a KeyError left the function)
RECURSIVE ScanFrom(_, _)
ScanFrom(words, i) ==
    IF i > Len(words) THEN [kind |-> "none", at |-> 0, ts |-> 0]
    ELSE IF ~HasKey(words[i], "word") THEN [kind |-> "raise", at |-> i, ts |-> 0]
    ELSE IF ~Contains(MARKER, words[i].word) THEN ScanFrom(words, i + 1)
    ELSE IF PrecedingRaises(words, i) THEN [kind |-> "raise", at |-> i, ts |-> 0]
    ELSE IF ~Contains(KEYWORD, Preceding(words, i)) THEN ScanFrom(words, i + 1)
    ELSE IF ~HasKey(words[i], "end") THEN [kind |-> "raise", at |-> i, ts |-> 0]
    ELSE [kind |-> "found", at |-> i, ts |-> Round2(words[i].end)]

ScanWords(words) == ScanFrom(words, 1)

\* seg.get('words', [])
SegWords(seg) == IF HasKey(seg, "words") THEN seg.words ELSE <<>>

\* the pre-filter letting the marker through as well as the keyword
TextHasKeywordOrMarker(seg) ==
    Contains(KEYWORD, seg.text) \/ Contains(MARKER, seg.text)

\* 'スライド' in text
TextHasKeyword(seg) == Contains(KEYWORD, seg.text)

\* text = seg['text'] raises KeyError, or the word loop does
SegRaises(seg) ==
    IF ~HasKey(seg, "text") THEN TRUE
    ELSE /\ TextHasKeyword(seg)
         /\ SegWords(seg) # <<>>
         /\ ScanWords(SegWords(seg)).kind = "raise"

----------------------------------------------------------------------------
(* The inputs: command lines, and the segment lists the transcription may  *)
(* return.                                                                 *)

\* the paths os.path.exists finds
ExistingFiles == {"talk.mp3"}

ArgvChoices ==
    { <<"detect_markers.py">>,
      <<"detect_markers.py", "missing.mp3">>,
      <<"detect_markers.py", "missing.mp3", "--model">>,
      <<"detect_markers.py", "missing.mp3", "--model", "base">>,
      <<"detect_markers.py", "talk.mp3">>,
      <<"detect_markers.py", "talk.mp3", "--model", "base">> }

\* word tokens
TokSlide == KEYWORD
TokSu == <<"SU">>
TokRai == <<"RA", "I">>
TokDo == <<"DO">>
TokNi == <<"ni">>
TokKudasai == MARKER
TokKudasaiNe == MARKER \o <<"ne">>
TokSlideKudasai == KEYWORD \o MARKER

\* segment texts: one with the keyword, one without
TextMarker == <<"tsugi", "no">> \o KEYWORD \o <<"ni">> \o MARKER
TextPlain == <<"tsugi", "ni">> \o MARKER

\* a word to be: its text, and which of the keys 'word' and 'end' it has
Ok(tok) == [tok |-> tok, keys |-> "both"]
NoEnd(tok) == [tok |-> tok, keys |-> "word"]
NoWord == [tok |-> <<>>, keys |-> "end"]

\* the j-th word of a segment ends at 3j eighths of a second
EndOf(j) == 3 * j

WordDict(p, j) ==
    IF p.keys = "both" THEN [word |-> p.tok, end |-> EndOf(j)]
    ELSE IF p.keys = "word" THEN [word |-> p.tok]
    ELSE [end |-> EndOf(j)]

Timed(protos) == [j \in 1..Len(protos) |-> WordDict(protos[j], j)]

Fillers(n) == [j \in 1..n |-> Ok(TokNi)]

\* how a generated word list starts
Heads ==
    { <<>>,
      <<Ok(TokSlide)>>,
      <<Ok(TokSu), Ok(TokRai), Ok(TokDo)>>,
      <<Ok(TokKudasai)>>,
      <<Ok(TokSlideKudasai)>>,
      <<NoWord>> }

\* how it ends
Tails ==
    { <<>>,
      <<Ok(TokKudasai)>>,
      <<Ok(TokKudasai), Ok(TokKudasaiNe)>>,
      <<Ok(TokSlide), Ok(TokKudasai), Ok(TokKudasaiNe)>>,
      <<NoEnd(TokKudasai)>>,
      <<Ok(TokKudasai), NoWord>> }

WordLists ==
    { Timed(h \o Fillers(n) \o t) : h \in Heads, n \in 0..MaxPad, t \in Tails }

\* the generated segments: a text with or without the keyword and any
\* generated word list, a text and no 'words' key, the marker phrase and no
\* 'text' key
RichSegs ==
    {[text |-> t, words |-> w] : t \in {TextMarker, TextPlain}, w \in WordLists}
    \cup {[text |-> t] : t \in {TextMarker, TextPlain}}
    \cup {[words |-> Timed(<<Ok(TokSlide), Ok(TokKudasai)>>)]}

\* the context segments: one that yields a transition at 13/8 s, one whose
\* words spell the marker phrase under a text without the keyword, one
\* without a text
CtxGood ==
    [text |-> TextMarker,
     words |-> << [word |-> TokSlide, end |-> 10], [word |-> TokKudasai, end |-> 13] >>]
CtxPlain ==
    [text |-> TextPlain,
     words |-> << [word |-> TokSlide, end |-> 4], [word |-> TokKudasai, end |-> 7] >>]
CtxNoText == [words |-> <<>>]

CtxSegs == {CtxGood, CtxPlain, CtxNoText}

RECURSIVE SeqsUpTo(_, _)
SeqsUpTo(S, n) ==
    IF n = 0 THEN {<<>>}
    ELSE LET shorter == SeqsUpTo(S, n - 1)
         IN  shorter \cup {Append(q, x) : q \in shorter, x \in S}

\* context c with segment r put after its first k segments
Insert(c, k, r) == SubSeq(c, 1, k) \o <<r>> \o SubSeq(c, k + 1, Len(c))

Contexts == SeqsUpTo(CtxSegs, MaxCtx)

\* result['segments'] is s: no segment at all, or one generated segment among
\* at most MaxCtx context segments
IsInput(s) ==
    \/ s = <<>>
    \/ \E c \in Contexts : \E k \in 0..Len(c) : \E r \in RichSegs :
          s = Insert(c, k, r)

----------------------------------------------------------------------------
(* main (lines 66-85).                                                     *)

\* for i, arg in enumerate(sys.argv[2:], 2):
\*     if arg == '--model' and i + 1 < len(sys.argv): model_name = sys.argv[i + 1]
\* (the 0-based i is the 1-based q - 1; the last match is the one that stays)
ParseModel(av) ==
    LET hits == {q \in 3..(Len(av) - 1) : av[q] = "--model"}
    IN  IF hits = {} THEN DefaultModel
        ELSE av[(CHOOSE q \in hits : \A r \in hits : r <= q) + 1]

\* a list that outlives the call (a module-level list, a mutable default)
StaleList == transitions

\* transitions = []
FreshList == <<>>

Init ==
    /\ argv \in ArgvChoices
    /\ mp3_path = <<>>
    /\ model_name = DefaultModel
    /\ transcribed = FALSE
    /\ segs = <<>>
    /\ idx = 0
    /\ transitions = <<>>
    /\ origin = <<>>
    /\ pc = "start"
    /\ stdout = <<>>
    /\ stderr = <<>>
    /\ exitCode = -1
    /\ run = 1
    /\ firstResult = [kind |-> "none", value |-> <<>>]

\* len(sys.argv) < 2: the usage line on standard error, sys.exit(1)
UsageExit ==
    /\ pc = "start"
    /\ Len(argv) < 2
    /\ stderr' = Append(stderr, "usage")
    /\ exitCode' = 1
    /\ pc' = "exited"
    /\ UNCHANGED <<argv, mp3_path, model_name, transcribed, segs, idx,
                   transitions, origin, stdout, run, firstResult>>

\* the file check without its sys.exit(1): the error object is printed and
\* the program goes on to transcribe
FileNotFoundNoExit ==
    /\ pc = "start"
    /\ Len(argv) >= 2
    /\ argv[2] \notin ExistingFiles
    /\ mp3_path' = argv[2]
    /\ model_name' = ParseModel(argv)
    /\ stdout' = Append(stdout, [kind |-> "error", body |-> <<"File not found: ", argv[2]>>])
    /\ transcribed' = TRUE
    /\ IsInput(segs')
    /\ idx' = 1
    /\ transitions' = <<>>
    /\ origin' = <<>>
    /\ pc' = "scan"
    /\ UNCHANGED <<argv, stderr, exitCode, run, firstResult>>

\* not os.path.exists(mp3_path): the error object on standard output, sys.exit(1)
FileNotFoundExit ==
    /\ pc = "start"
    /\ Len(argv) >= 2
    /\ argv[2] \notin ExistingFiles
    /\ mp3_path' = argv[2]
    /\ model_name' = ParseModel(argv)
    /\ stdout' = Append(stdout, [kind |-> "error", body |-> <<"File not found: ", argv[2]>>])
    /\ exitCode' = 1
    /\ pc' = "exited"
    /\ UNCHANGED <<argv, transcribed, segs, idx, transitions, origin, stderr,
                   run, firstResult>>

\* detect_marker_timestamps(mp3_path, model_name) up to its loop: the model is
\* loaded, the audio transcribed, and the list of transitions starts empty
Transcribe ==
    /\ pc = "start"
    /\ Len(argv) >= 2
    /\ argv[2] \in ExistingFiles
    /\ mp3_path' = argv[2]
    /\ model_name' = ParseModel(argv)
    /\ transcribed' = TRUE
    /\ IsInput(segs')
    /\ idx' = 1
    /\ transitions' = FreshList
    /\ origin' = <<>>
    /\ pc' = "scan"
    /\ UNCHANGED <<argv, stdout, stderr, exitCode, run, firstResult>>

\* print(json.dumps(timestamps)), and the interpreter ends with code 0
PrintTimestamps ==
    /\ pc = "returned"
    /\ stdout' = Append(stdout, [kind |-> "array", body |-> transitions])
    /\ exitCode' = 0
    /\ pc' = "exited"
    /\ UNCHANGED <<argv, mp3_path, model_name, transcribed, segs, idx,
                   transitions, origin, stderr, run, firstResult>>

\* nothing in main catches the scanner's KeyError: the interpreter writes the
\* traceback to standard error and ends with code 1
UncaughtExit ==
    /\ pc = "raised"
    /\ stderr' = Append(stderr, "Traceback")
    /\ exitCode' = 1
    /\ pc' = "exited"
    /\ UNCHANGED <<argv, mp3_path, model_name, transcribed, segs, idx,
                   transitions, origin, stdout, run, firstResult>>

----------------------------------------------------------------------------
(* detect_marker_timestamps' loop over result['segments'] (lines 31-63):   *)
(* one action per way an iteration ends.                                   *)

Scanning == pc = "scan" /\ idx <= Len(segs)

\* if 'スライド' not in text: continue
SkipNoKeyword ==
    /\ Scanning
    /\ HasKey(segs[idx], "text")
    /\ ~TextHasKeyword(segs[idx])
    /\ idx' = idx + 1
    /\ UNCHANGED <<argv, mp3_path, model_name, transcribed, segs, transitions,
                   origin, pc, stdout, stderr, exitCode, run, firstResult>>

\* break in place of continue: a segment without words ends the whole scan
SkipNoWordsBreak ==
    /\ Scanning
    /\ HasKey(segs[idx], "text")
    /\ TextHasKeyword(segs[idx])
    /\ SegWords(segs[idx]) = <<>>
    /\ idx' = Len(segs) + 1
    /\ UNCHANGED <<argv, mp3_path, model_name, transcribed, segs, transitions,
                   origin, pc, stdout, stderr, exitCode, run, firstResult>>

\* if not words: continue
SkipNoWords ==
    /\ Scanning
    /\ HasKey(segs[idx], "text")
    /\ TextHasKeyword(segs[idx])
    /\ SegWords(segs[idx]) = <<>>
    /\ idx' = idx + 1
    /\ UNCHANGED <<argv, mp3_path, model_name, transcribed, segs, transitions,
                   origin, pc, stdout, stderr, exitCode, run, firstResult>>

\* transitions.insert(0, ...) in place of transitions.append(...)
EmitTransitionFront ==
    /\ Scanning
    /\ HasKey(segs[idx], "text")
    /\ TextHasKeyword(segs[idx])
    /\ SegWords(segs[idx]) # <<>>
    /\ LET m == ScanWords(SegWords(segs[idx]))
       IN  /\ m.kind = "found"
           /\ transitions' = <<m.ts>> \o transitions
    /\ origin' = <<idx>> \o origin
    /\ idx' = idx + 1
    /\ UNCHANGED <<argv, mp3_path, model_name, transcribed, segs, pc, stdout,
                   stderr, exitCode, run, firstResult>>

\* the timestamps of the qualifying words after word `from`, as the word
\* loop would append them if it went on after its first match
RECURSIVE LaterMatches(_, _)
LaterMatches(words, from) ==
    LET m == ScanFrom(words, from + 1)
    IN  IF m.kind = "found" THEN <<m.ts>> \o LaterMatches(words, m.at) ELSE <<>>

\* the append without the break after it: every qualifying word appends
EmitEveryMatch ==
    /\ Scanning
    /\ HasKey(segs[idx], "text")
    /\ TextHasKeyword(segs[idx])
    /\ SegWords(segs[idx]) # <<>>
    /\ LET m == ScanWords(SegWords(segs[idx]))
           more == IF m.kind = "found" THEN LaterMatches(SegWords(segs[idx]), m.at)
                   ELSE <<>>
       IN  /\ m.kind = "found"
           /\ transitions' = Append(transitions, m.ts) \o more
           /\ origin' = Append(origin, idx) \o [n \in 1..Len(more) |-> idx]
    /\ idx' = idx + 1
    /\ UNCHANGED <<argv, mp3_path, model_name, transcribed, segs, pc, stdout,
                   stderr, exitCode, run, firstResult>>

\* transitions.append(round(w['end'], 2)); found = True; break
EmitTransition ==
    /\ Scanning
    /\ HasKey(segs[idx], "text")
    /\ TextHasKeyword(segs[idx])
    /\ SegWords(segs[idx]) # <<>>
    /\ LET m == ScanWords(SegWords(segs[idx]))
       IN  /\ m.kind = "found"
           /\ transitions' = Append(transitions, m.ts)
    /\ origin' = Append(origin, idx)
    /\ idx' = idx + 1
    /\ UNCHANGED <<argv, mp3_path, model_name, transcribed, segs, pc, stdout,
                   stderr, exitCode, run, firstResult>>

\* the word loop ends with found = False
NoMarker ==
    /\ Scanning
    /\ HasKey(segs[idx], "text")
    /\ TextHasKeyword(segs[idx])
    /\ SegWords(segs[idx]) # <<>>
    /\ ScanWords(SegWords(segs[idx])).kind = "none"
    /\ idx' = idx + 1
    /\ UNCHANGED <<argv, mp3_path, model_name, transcribed, segs, transitions,
                   origin, pc, stdout, stderr, exitCode, run, firstResult>>

\* seg['text'], w['word'] or w['end'] of a dict without the key: KeyError,
\* which nothing in the function catches
RaiseKeyError ==
    /\ Scanning
    /\ SegRaises(segs[idx])
    /\ pc' = "raised"
    /\ UNCHANGED <<argv, mp3_path, model_name, transcribed, segs, idx,
                   transitions, origin, stdout, stderr, exitCode, run, firstResult>>

\* return transitions
ReturnTransitions ==
    /\ pc = "scan"
    /\ idx > Len(segs)
    /\ pc' = "returned"
    /\ UNCHANGED <<argv, mp3_path, model_name, transcribed, segs, idx,
                   transitions, origin, stdout, stderr, exitCode, run, firstResult>>

Next ==
    \/ UsageExit
    \/ FileNotFoundExit
    \/ Transcribe
    \/ SkipNoKeyword
    \/ SkipNoWords
    \/ EmitTransition
    \/ NoMarker
    \/ RaiseKeyError
    \/ ReturnTransitions
    \/ PrintTimestamps
    \/ UncaughtExit

Spec == Init /\ [][Next]_vars

----------------------------------------------------------------------------
(* The scanner called a second time on the segment list it was given,      *)
(* by a caller that keeps the first call's outcome.                        *)

\* what an invocation that has ended handed to its caller
Outcome ==
    IF pc = "returned" THEN [kind |-> "return", value |-> transitions]
    ELSE [kind |-> "raise", value |-> <<>>]

InitRepeat ==
    /\ argv = <<>>
    /\ mp3_path = "talk.mp3"
    /\ model_name = DefaultModel
    /\ transcribed = TRUE
    /\ IsInput(segs)
    /\ idx = 1
    /\ transitions = <<>>
    /\ origin = <<>>
    /\ pc = "scan"
    /\ stdout = <<>>
    /\ stderr = <<>>
    /\ exitCode = -1
    /\ run = 1
    /\ firstResult = [kind |-> "none", value |-> <<>>]

\* the second call: the function's locals are created anew (line 29)
CallAgain ==
    /\ pc \in {"returned", "raised"}
    /\ run = 1
    /\ firstResult' = Outcome
    /\ run' = 2
    /\ transitions' = FreshList
    /\ origin' = <<>>
    /\ idx' = 1
    /\ pc' = "scan"
    /\ UNCHANGED <<argv, mp3_path, model_name, transcribed, segs, stdout,
                   stderr, exitCode>>

NextRepeat ==
    \/ SkipNoKeyword
    \/ SkipNoWords
    \/ EmitTransition
    \/ NoMarker
    \/ RaiseKeyError
    \/ ReturnTransitions
    \/ CallAgain

SpecRepeat == InitRepeat /\ [][NextRepeat]_vars

----------------------------------------------------------------------------
(* What the claims speak of, said without the scanner's own operators.     *)

\* ts (hundredths of a second) is a hundredth nearest to e eighths of a second
IsRounded(e, ts) == (8 * ts - 100 * e) \in -4..4

\* word i holds the marker, and the words before it, at most LOOKBACK of
\* them and without word i itself, spell the keyword
Qualifies(words, i) ==
    /\ \A j \in Max(1, i - LOOKBACK)..i : HasKey(words[j], "word")
    /\ Contains(MARKER, words[i].word)
    /\ Contains(KEYWORD, JoinWords(words, Max(1, i - LOOKBACK), i - 1))

WordsOf(k) == IF HasKey(segs[k], "words") THEN segs[k].words ELSE <<>>

HasQualifying(k) == \E i \in 1..Len(WordsOf(k)) : Qualifies(WordsOf(k), i)

\* the lowest index of a qualifying word of segment k
FirstQualifying(k) ==
    CHOOSE i \in 1..Len(WordsOf(k)) :
        /\ Qualifies(WordsOf(k), i)
        /\ \A j \in 1..(i - 1) : ~Qualifies(WordsOf(k), j)

KeywordInText(k) == HasKey(segs[k], "text") /\ Contains(KEYWORD, segs[k].text)

\* the positions of the transition list that segment k appended
EmittedBy(k) == {p \in 1..Len(origin) : origin[p] = k}

\* the scanner's loop has finished with segment k
Passed(k) == k \in 1..Len(segs) /\ k < idx

NonDecreasing(q) == \A a, b \in 1..Len(q) : a < b => q[a] <= q[b]

----------------------------------------------------------------------------
(* C1 as stated: once the scanner has returned, every segment with a word  *)
(* that holds the marker and whose up-to-8 preceding words spell the       *)
(* keyword has exactly one timestamp in the list, the rounded end time of  *)
(* that word.  (Refuted: the text of the segment decides first, and of two *)
(* such words only the first counts.)                                      *)
C1_AsStated ==
    pc = "returned" =>
        \A k \in 1..Len(segs) : \A i \in 1..Len(WordsOf(k)) :
            (Qualifies(WordsOf(k), i) /\ HasKey(WordsOf(k)[i], "end")) =>
                /\ Cardinality(EmittedBy(k)) = 1
                /\ \A p \in EmittedBy(k) : transitions[p] = Round2(WordsOf(k)[i].end)

(* C1, amended: for every segment the scan has moved past whose text holds *)
(* the keyword and which has a qualifying word, the list holds exactly one *)
(* timestamp of that segment: the end time of its lowest-index qualifying  *)
(* word, rounded to the nearest hundredth.                                 *)
C1_FirstMarkerEmitted ==
    \A k \in 1..Len(segs) :
        (Passed(k) /\ KeywordInText(k) /\ HasQualifying(k)) =>
            /\ Cardinality(EmittedBy(k)) = 1
            /\ HasKey(WordsOf(k)[FirstQualifying(k)], "end")
            /\ \A p \in EmittedBy(k) :
                   /\ p <= Len(transitions)
                   /\ IsRounded(WordsOf(k)[FirstQualifying(k)].end, transitions[p])

\* a returned scan with a segment that has two qualifying words of different
\* rounded end times and has yielded its timestamp
C1_Witness ==
    /\ pc = "returned"
    /\ \E k \in 1..Len(segs) :
          /\ KeywordInText(k)
          /\ EmittedBy(k) # {}
          /\ \E i, j \in 1..Len(WordsOf(k)) :
                /\ i < j
                /\ Qualifies(WordsOf(k), i)
                /\ Qualifies(WordsOf(k), j)
                /\ HasKey(WordsOf(k)[i], "end")
                /\ HasKey(WordsOf(k)[j], "end")
                /\ Round2(WordsOf(k)[i].end) # Round2(WordsOf(k)[j].end)

(* C2: every timestamp of the list is justified by a detected marker: it   *)
(* is the rounded end time of a word of the segment that appended it, the  *)
(* segment's text holds the keyword, the word holds the marker, and the    *)
(* words before it, at most 8 and without the word itself, spell the       *)
(* keyword.  A keyword more than 8 words back, or inside the marker word,  *)
(* justifies nothing.                                                      *)
C2_TimestampsJustified ==
    /\ Len(origin) = Len(transitions)
    /\ \A p \in 1..Len(transitions) :
          /\ origin[p] \in 1..Len(segs)
          /\ KeywordInText(origin[p])
          /\ \E i \in 1..Len(WordsOf(origin[p])) :
                /\ Qualifies(WordsOf(origin[p]), i)
                /\ HasKey(WordsOf(origin[p])[i], "end")
                /\ IsRounded(WordsOf(origin[p])[i].end, transitions[p])

\* a returned scan that has a timestamp, and has passed a segment with the
\* keyword in its text, a marker word that holds the keyword itself, a marker
\* word more than 8 words after the keyword, and no timestamp of its own
C2_Witness ==
    /\ pc = "returned"
    /\ transitions # <<>>
    /\ \E k \in 1..Len(segs) :
          /\ KeywordInText(k)
          /\ EmittedBy(k) = {}
          /\ \A j \in 1..Len(WordsOf(k)) : HasKey(WordsOf(k)[j], "word")
          /\ \E i \in 1..Len(WordsOf(k)) :
                /\ Contains(MARKER, WordsOf(k)[i].word)
                /\ Contains(KEYWORD, WordsOf(k)[i].word)
          /\ \E i \in (LOOKBACK + 2)..Len(WordsOf(k)) :
                /\ Contains(MARKER, WordsOf(k)[i].word)
                /\ Contains(KEYWORD, JoinWords(WordsOf(k), 1, i - LOOKBACK - 1))

(* C3: a segment has at most one timestamp in the list however many of its *)
(* words qualify, and it is that of the lowest-index qualifying word: a    *)
(* marker word whose window lacks the keyword does not end the scan of the *)
(* segment, the first qualifying word does.                                *)
C3_AtMostOneFirstWins ==
    \A k \in 1..Len(segs) :
        /\ Cardinality(EmittedBy(k)) <= 1
        /\ \A p \in EmittedBy(k) :
              /\ HasQualifying(k)
              /\ transitions[p] = Round2(WordsOf(k)[FirstQualifying(k)].end)

\* a segment has yielded its timestamp whose first marker word does not
\* qualify and which has two qualifying words after it
C3_Witness ==
    \E k \in 1..Len(segs) :
        /\ EmittedBy(k) # {}
        /\ \E h, i, j \in 1..Len(WordsOf(k)) :
              /\ h < i
              /\ i < j
              /\ HasKey(WordsOf(k)[h], "word")
              /\ Contains(MARKER, WordsOf(k)[h].word)
              /\ ~Qualifies(WordsOf(k), h)
              /\ Qualifies(WordsOf(k), i)
              /\ Qualifies(WordsOf(k), j)

\* segment k is one the scan has moved past and that has a marker to yield
Yields(k) == Passed(k) /\ KeywordInText(k) /\ HasQualifying(k)

\* the end time of the marker word of such a segment
MarkerEnd(k) == WordsOf(k)[FirstQualifying(k)].end

(* C4 as stated: the returned list is in non-decreasing order, whatever    *)
(* the segment list.  (Refuted: the scanner never sorts, and a segment     *)
(* list whose marker words end earlier in a later segment gives a list     *)
(* that decreases.)                                                        *)
C4_AsStated == pc = "returned" => NonDecreasing(transitions)

(* C4, amended: the list is in traversal order and never sorted; it is     *)
(* non-decreasing whenever the end times of the marker words of the        *)
(* segments that yield a timestamp are non-decreasing in segment order.    *)
C4_OrderedWhenInputIs ==
    (\A a, b \in 1..Len(segs) :
        (Yields(a) /\ Yields(b) /\ a < b) => MarkerEnd(a) <= MarkerEnd(b))
    => NonDecreasing(transitions)

\* a returned list of two timestamps from marker words in time order
C4_Witness ==
    /\ pc = "returned"
    /\ Len(transitions) >= 2
    /\ \A a, b \in 1..Len(segs) :
          (Yields(a) /\ Yields(b) /\ a < b) => MarkerEnd(a) < MarkerEnd(b)

(* C5: the timestamps are in the order of the segments that appended them, *)
(* and there are never more timestamps than segments.                      *)
C5_SegmentOrder ==
    /\ Len(origin) = Len(transitions)
    /\ \A p, q \in 1..Len(origin) : p < q => origin[p] < origin[q]
    /\ Len(transitions) <= Len(segs)

\* two segments have each yielded a timestamp, the later one the smaller
C5_Witness ==
    /\ pc = "returned"
    /\ Len(transitions) = 2
    /\ transitions[2] < transitions[1]

(* C6: a segment whose text lacks the keyword has no timestamp in the      *)
(* list, whatever its words are.                                           *)
C6_NoKeywordNoTimestamp ==
    \A k \in 1..Len(segs) :
        (HasKey(segs[k], "text") /\ ~Contains(KEYWORD, segs[k].text)) =>
            EmittedBy(k) = {}

\* the scan has returned after a segment whose text lacks the keyword while
\* its words hold a qualifying marker
C6_Witness ==
    /\ pc = "returned"
    /\ \E k \in 1..Len(segs) :
          /\ HasKey(segs[k], "text")
          /\ ~Contains(KEYWORD, segs[k].text)
          /\ HasQualifying(k)

\* the segment under the scanner has the keyword in its text and no words
AtWordless ==
    /\ Scanning
    /\ KeywordInText(idx)
    /\ WordsOf(idx) = <<>>

(* C7: at a segment whose text holds the keyword and whose words are empty *)
(* or absent the scanner appends nothing and goes on to the next segment.  *)
C7_WordlessSkipped ==
    [][AtWordless =>
          /\ transitions' = transitions
          /\ origin' = origin
          /\ pc' = "scan"
          /\ idx' = idx + 1]_vars

\* the scan has returned with a timestamp of a segment that comes after one
\* with the keyword in its text and no words
C7_Witness ==
    /\ pc = "returned"
    /\ \E k \in 1..Len(segs) :
          /\ KeywordInText(k)
          /\ WordsOf(k) = <<>>
          /\ \E p \in 1..Len(origin) : origin[p] > k

(* C8 as stated: the scan never raises, whatever the segments.  (The code  *)
(* raises KeyError at a segment without 'text' and at a word without       *)
(* 'word' or 'end' that it reads.)                                         *)
C8_NeverRaises == pc # "raised"

(* C9: with a path that does not exist the program prints the error object *)
(* on standard output and exits with 1, without transcribing or printing   *)
(* an array; without a path it exits with 1 after the usage line on        *)
(* standard error; only with both checks passed does it transcribe, print  *)
(* the array and exit with 0.                                              *)
C9_ExitPaths ==
    LET noPath == Len(argv) < 2
        noFile == Len(argv) >= 2 /\ argv[2] \notin ExistingFiles
    IN  /\ (noPath \/ noFile) =>
              /\ ~transcribed
              /\ exitCode # 0
              /\ \A n \in 1..Len(stdout) : stdout[n].kind # "array"
        /\ (pc = "exited" /\ noFile) =>
              /\ stdout = << [kind |-> "error", body |-> <<"File not found: ", argv[2]>>] >>
              /\ exitCode = 1
        /\ (pc = "exited" /\ noPath) =>
              /\ stderr = <<"usage">>
              /\ stdout = <<>>
              /\ exitCode = 1
        /\ exitCode = 0 =>
              /\ transcribed
              /\ stdout = << [kind |-> "array", body |-> transitions] >>

\* the program has exited on a path that does not exist
C9_Witness ==
    /\ pc = "exited"
    /\ Len(argv) >= 2
    /\ argv[2] = "missing.mp3"
    /\ exitCode = 1

(* C10: a second call of the scanner on the same segments ends as the      *)
(* first did, with the same list, whatever the first call left behind, and *)
(* no step changes the segments.                                           *)
C10_Repeatable ==
    /\ []((run = 2 /\ pc \in {"returned", "raised"}) => Outcome = firstResult)
    /\ [][segs' = segs]_vars

\* the second call has returned a list that is not empty
C10_Witness ==
    /\ run = 2
    /\ pc = "returned"
    /\ transitions # <<>>

====
